---- MODULE Spec2Model ----
(***************************************************************************)
(* pyHS100 command line tool (pyHS100/cli.py): the group callback `cli`,   *)
(* the `discover` command it invokes, and `find_host_from_alias`.          *)
(*                                                                         *)
(* Python's Optional values are sequences of length 0 or 1: None is <<>>   *)
(* and a present value x is <<x>>.  Network addresses are integers (the    *)
(* last octet), an alias is a sequence of characters.  The callback is     *)
(* cut at its network calls: every action is the code between two calls,   *)
(* and the call's outcome is chosen by the network.                        *)
(***************************************************************************)
EXTENDS Integers, Sequences, FiniteSets

\* ------------------------------------------------------------------ bounds
\* largest attempt budget a direct call of find_host_from_alias is given
MaxAttempts == 3
\* longest alias, in characters
MaxAliasLen == 1

\* ------------------------------------------------------- program constants
\* cli.py:43 and cli.py:142, default of --target / target ("255.255.255.255")
DefaultTarget == 255
\* cli.py:142, default of timeout
DefaultTimeout == 1
\* cli.py:142, default of attempts
DefaultAttempts == 3

\* ------------------------------------------------------------ value spaces
None == <<>>
Some(x) == <<x>>

\* addresses of the devices that may answer (10.0.0.5 and 10.0.0.9)
Hosts == {5, 9}
\* the letters of an alias: one letter in both cases
Chars == {"a", "A"}
Kinds == {"bulb", "plug", "strip"}
Timeouts == {-1, 0, 1}

Aliases == UNION {[1..n -> Chars] : n \in 0..MaxAliasLen}

\* a device object as Discover.discover yields it: host, alias and class
Descriptors == [host : Hosts, alias : Aliases, kind : Kinds]

\* the items of the dict Discover.discover returns, in iteration order
\* (insertion order, i.e. the order of first arrival); keys are unique
DiscoveryResults ==
    {r \in UNION {[1..n -> Descriptors] : n \in 0..Cardinality(Hosts)} :
        \A i, j \in 1..Len(r) : r[i].host = r[j].host => i = j}

\* str.lower() on one character
LowerChar(c) == IF c = "A" THEN "a" ELSE c

\* str.lower()
Lower(s) == [i \in 1..Len(s) |-> LowerChar(s[i])]

\* cli.py:153, the comparison of the scan
AliasMatches(dev, a) == Lower(dev.alias) = Lower(a)

\* range(start, stop), the values the for loop of cli.py:149 takes
range(start, stop) == start..(stop - 1)

\* the device handle SmartBulb(host) / SmartPlug(host) / SmartStrip(host)
Handle(kind, h) == [kind |-> kind, host |-> h]

VARIABLES
    ip, host, alias, target,        \* options of the group
    params_host,                    \* ctx.params["host"], --host as given
    bulb, plug, strip,              \* kind flags
    invoked_subcommand,             \* ctx.invoked_subcommand
    ctx_obj,                        \* ctx.obj
    caller,                         \* who called find_host_from_alias
    attempts, timeout,              \* parameters of find_host_from_alias
    attempt,                        \* loop variable of cli.py:149
    found_devs,                     \* items of the last discovery round
    fh_ret,                         \* value find_host_from_alias returned
    exc,                            \* exception that left the call uncaught
    netlog,                         \* network calls issued so far
    stateCalls,                     \* handles ctx.invoke(state) was run on
    echoed,                         \* click.echo messages of cli
    firstMatchRound,                \* network: first round answering with the alias (0: never)
    pc

vars == <<ip, host, alias, target, params_host, bulb, plug, strip, invoked_subcommand,
          ctx_obj, caller, attempts, timeout, attempt, found_devs, fh_ret,
          exc, netlog, stateCalls, echoed, firstMatchRound, pc>>

options == <<ip, alias, target, params_host, bulb, plug, strip, invoked_subcommand,
             caller, attempts, timeout, firstMatchRound>>

\* number of discovery rounds alias resolution has issued
Rounds == Len(SelectSeq(netlog, LAMBDA c : c.by = "find_host_from_alias"))

\* ------------------------------------------------------------- the network
HasMatch(r, a) == \E i \in 1..Len(r) : AliasMatches(r[i], a)

\* what the k-th discovery round for alias a may answer: the alias is first
\* carried by a reply of round firstMatchRound
RoundResults(k, a) ==
    {r \in DiscoveryResults :
        /\ (firstMatchRound = 0 \/ k < firstMatchRound) => ~HasMatch(r, a)
        /\ k = firstMatchRound => HasMatch(r, a)}

\* one entry of netlog
Call(by, call, to) == [by |-> by, call |-> call, target |-> to]

\* ---------------------------------------------------- find_host_from_alias
RECURSIVE ScanFrom(_, _, _)
\* cli.py:152-155, the for loop over found_devs from item i on
ScanFrom(devs, a, i) ==
    IF i > Len(devs) THEN None
    ELSE IF AliasMatches(devs[i], a) THEN Some(devs[i].host)
    ELSE ScanFrom(devs, a, i + 1)

\* the hosts of the items of a round that carry alias a
MatchingHosts(devs, a) ==
    {devs[i].host : i \in {j \in 1..Len(devs) : AliasMatches(devs[j], a)}}

Min(S) == CHOOSE x \in S : \A y \in S : x <= y

\* the scan with a tie-break on the address: lowest matching host
FirstMatch_lowest(devs, a) ==
    IF MatchingHosts(devs, a) = {} THEN None
    ELSE Some(Min(MatchingHosts(devs, a)))

\* cli.py:152-155: the host of the first item carrying the alias, or None
FirstMatch(devs, a) == ScanFrom(devs, a, 1)

\* cli.py:142-149: entry of the function and the first test of the loop
find_host_from_alias ==
    /\ pc = "fh_call"
    /\ attempt' = 1
    /\ IF 1 \in range(1, attempts)
       THEN pc' = "fh_discover" /\ UNCHANGED fh_ret
       ELSE pc' = "fh_return" /\ fh_ret' = None
    /\ UNCHANGED <<options, host, ctx_obj, found_devs, exc, netlog,
                   stateCalls, echoed>>

\* cli.py:151: one discovery round; Discover.discover answers, rejects the
\* timeout, or fails in the transport
fh_discover ==
    /\ pc = "fh_discover"
    /\ IF timeout <= 0
       THEN /\ exc' = "InvalidArgument"
            /\ pc' = "raised"
            /\ UNCHANGED <<found_devs, netlog>>
       ELSE /\ netlog' = Append(netlog,
                           Call("find_host_from_alias", "discover", target))
            /\ \/ /\ \E r \in RoundResults(Rounds + 1, alias[1]) :
                        found_devs' = r
                  /\ pc' = "fh_scan"
                  /\ UNCHANGED exc
               \/ /\ exc' = "TransportError"
                  /\ pc' = "raised"
                  /\ UNCHANGED found_devs
    /\ UNCHANGED <<options, host, ctx_obj, attempt, fh_ret, stateCalls,
                   echoed>>

\* cli.py:152-156 and the next test of the loop of cli.py:149.  A round
\* without a match leaves found_devs to be rebound by the next round before
\* it is read again: the scanned items are dropped.
fh_scan ==
    /\ pc = "fh_scan"
    /\ LET m == FirstMatch(found_devs, alias[1]) IN
       IF m # None
       THEN /\ fh_ret' = m
            /\ pc' = "fh_return"
            /\ UNCHANGED <<attempt, found_devs>>
       ELSE /\ attempt' = attempt + 1
            /\ found_devs' = <<>>
            /\ IF attempt + 1 \in range(1, attempts)
               THEN pc' = "fh_discover" /\ UNCHANGED fh_ret
               ELSE pc' = "fh_return" /\ fh_ret' = None
    /\ UNCHANGED <<options, host, ctx_obj, exc, netlog, stateCalls, echoed>>

\* --------------------------------------------------------------------- cli
\* cli.py:63-64
HostOrIp(i, h) == IF i # None /\ h = None THEN i ELSE h

\* the path chosen with the test of the host left out of cli.py:66
ResolutionPath_aliasFirst(h, a) ==
    IF a # None THEN "alias"
    ELSE IF h = None THEN "discover"
    ELSE "host"

\* cli.py:66 and cli.py:75: which resolution path the callback takes
ResolutionPath(h, a) ==
    IF a # None /\ h = None THEN "alias"
    ELSE IF h = None THEN "discover"
    ELSE "host"

\* cli.py:69: truth value of the host find_host_from_alias returned
Truthy(h) == h # None

\* the callback without the return of cli.py:73: it falls through to cli.py:75
AfterAlias_fallThrough(h) == IF Truthy(h) THEN "factory" ELSE "discover"

\* cli.py:69-73: where the callback goes after alias resolution
AfterAlias(h) == IF Truthy(h) THEN "factory" ELSE "done"

\* the test of cli.py:80 with --strip left out
NeedsProbe_noStrip(b, p, s) == ~b /\ ~p

\* cli.py:80: no kind flag given, the kind is auto-detected
NeedsProbe(b, p, s) == ~b /\ ~p /\ ~s

\* the if/elif chain with the tests of --bulb and --plug exchanged
KindBranch_plugFirst(b, p, s) ==
    IF NeedsProbe(b, p, s) THEN "auto"
    ELSE IF p THEN "plug"
    ELSE IF b THEN "bulb"
    ELSE IF s THEN "strip"
    ELSE "unable"

\* cli.py:80-91: the branch of the if/elif chain that is taken
KindBranch(b, p, s) ==
    IF NeedsProbe(b, p, s) THEN "auto"
    ELSE IF b THEN "bulb"
    ELSE IF p THEN "plug"
    ELSE IF s THEN "strip"
    ELSE "unable"

\* cli.py:94-95: the default state command, run on ctx.obj
InvokeState(calls, sub, dev) ==
    IF sub = None THEN Append(calls, dev) ELSE calls

\* cli.py:55-78, up to the first call into the network.  For the discover
\* subcommand the callback returns at cli.py:61; the subcommand that click
\* runs after the callback is not part of it.
cli ==
    /\ pc = "cli"
    /\ IF invoked_subcommand = Some("discover")
       THEN pc' = "done" /\ UNCHANGED <<host, echoed>>
       ELSE LET h == HostOrIp(ip, host)
                path == ResolutionPath(h, alias)
            IN /\ host' = h
               /\ pc' = CASE path = "alias" -> "fh_call"
                          [] path = "discover" -> "discover"
                          [] OTHER -> "factory"
               /\ echoed' = CASE path = "alias" -> Append(echoed, "AliasGiven")
                              [] path = "discover" -> Append(echoed, "NoHostGiven")
                              [] OTHER -> echoed
    /\ UNCHANGED <<options, ctx_obj, attempt, found_devs, fh_ret, exc,
                   netlog, stateCalls>>

\* cli.py:68-73: the return of find_host_from_alias into the callback; the
\* locals of the call (attempt, found_devs) are gone
cli_after_alias ==
    /\ pc = "fh_return"
    /\ caller = "cli"
    /\ host' = fh_ret
    /\ pc' = AfterAlias(fh_ret)
    /\ echoed' = Append(echoed, IF Truthy(fh_ret) THEN "Found" ELSE "NoDevice")
    /\ attempt' = 0
    /\ found_devs' = <<>>
    /\ UNCHANGED <<options, ctx_obj, fh_ret, exc, netlog, stateCalls>>

\* cli.py:79-95 with a known host: construct the handle, or call
\* Discover.discover_single(host)
cli_factory ==
    /\ pc = "factory"
    /\ LET branch == KindBranch(bulb, plug, strip) IN
       CASE branch = "auto" ->
              /\ echoed' = Append(echoed, "NoKindGiven")
              /\ netlog' = Append(netlog, Call("cli", "discover_single", host[1]))
              /\ pc' = "single"
              /\ UNCHANGED <<ctx_obj, stateCalls>>
         [] branch = "unable" ->
              /\ echoed' = Append(echoed, "Unable")
              /\ pc' = "done"
              /\ UNCHANGED <<ctx_obj, stateCalls, netlog>>
         [] OTHER ->
              /\ ctx_obj' = Some(Handle(branch, host[1]))
              /\ stateCalls' = InvokeState(stateCalls, invoked_subcommand,
                                           Handle(branch, host[1]))
              /\ pc' = "done"
              /\ UNCHANGED <<echoed, netlog>>
    /\ UNCHANGED <<options, host, attempt, found_devs, fh_ret, exc>>

\* cli.py:82, 92-95: Discover.discover_single returns the device of the
\* detected class, or fails
discover_single ==
    /\ pc = "single"
    /\ \/ \E k \in Kinds :
             /\ ctx_obj' = Some(Handle(k, host[1]))
             /\ stateCalls' = InvokeState(stateCalls, invoked_subcommand,
                                          Handle(k, host[1]))
             /\ pc' = "done"
             /\ UNCHANGED exc
       \/ /\ exc' = "UnresolvedDevice"
          /\ pc' = "raised"
          /\ UNCHANGED <<ctx_obj, stateCalls>>
    /\ UNCHANGED <<options, host, attempt, found_devs, fh_ret, netlog, echoed>>

\* the loop of the discover command stopping after the first device
StateInvocations_firstOnly(devs, discover_only, dump_raw) ==
    IF discover_only \/ dump_raw \/ devs = <<>> THEN <<>>
    ELSE <<Handle(devs[1].kind, devs[1].host)>>

\* cli.py:130-136: the devices the discover command runs state on
StateInvocations(devs, discover_only, dump_raw) ==
    IF discover_only \/ dump_raw THEN <<>>
    ELSE [i \in 1..Len(devs) |-> Handle(devs[i].kind, devs[i].host)]

\* cli.py:135: ctx.obj after the loop of the discover command
LastObj(obj, calls) == IF calls = <<>> THEN obj ELSE Some(calls[Len(calls)])

\* cli.py:76-78 and cli.py:123-139: ctx.invoke(discover) with the defaults
\* timeout=3 (cli.py:119), discover_only=False, dump_raw=False
discover ==
    /\ pc = "discover"
    /\ netlog' = Append(netlog, Call("discover", "discover", target))
    /\ \/ \E r \in DiscoveryResults :
             LET shown == StateInvocations(r, FALSE, FALSE) IN
             /\ found_devs' = r
             /\ stateCalls' = stateCalls \o shown
             /\ ctx_obj' = LastObj(ctx_obj, shown)
             /\ pc' = "done"
             /\ UNCHANGED exc
       \/ /\ exc' = "TransportError"
          /\ pc' = "raised"
          /\ UNCHANGED <<found_devs, stateCalls, ctx_obj>>
    /\ UNCHANGED <<options, host, attempt, fh_ret, echoed>>

\* ---------------------------------------------------------- specifications
Optional(S) == {None} \cup {Some(x) : x \in S}

\* a run of the command line tool
Init ==
    /\ ip \in Optional(Hosts)
    /\ host \in Optional(Hosts)
    /\ params_host = host
    /\ alias \in Optional(Aliases)
    /\ target = DefaultTarget
    /\ bulb \in BOOLEAN /\ plug \in BOOLEAN /\ strip \in BOOLEAN
    /\ invoked_subcommand \in {None, Some("discover"), Some("sysinfo")}
    /\ ctx_obj = None
    /\ caller = "cli"
    /\ attempts = DefaultAttempts
    /\ timeout = DefaultTimeout
    /\ attempt = 0
    /\ found_devs = <<>>
    /\ fh_ret = None
    /\ exc = "none"
    /\ netlog = <<>>
    /\ stateCalls = <<>>
    /\ echoed = <<>>
    /\ firstMatchRound \in 0..DefaultAttempts
    /\ pc = "cli"

Next ==
    \/ cli
    \/ find_host_from_alias
    \/ fh_discover
    \/ fh_scan
    \/ cli_after_alias
    \/ cli_factory
    \/ discover_single
    \/ discover

Spec == Init /\ [][Next]_vars

\* a direct call find_host_from_alias(alias, target, timeout, attempts)
InitAlias ==
    /\ ip = None /\ host = None /\ params_host = None
    /\ alias \in {Some(a) : a \in Aliases}
    /\ target = DefaultTarget
    /\ bulb = FALSE /\ plug = FALSE /\ strip = FALSE
    /\ invoked_subcommand = None
    /\ ctx_obj = None
    /\ caller = "direct"
    /\ attempts \in -1..MaxAttempts
    /\ timeout \in Timeouts
    /\ attempt = 0
    /\ found_devs = <<>>
    /\ fh_ret = None
    /\ exc = "none"
    /\ netlog = <<>>
    /\ stateCalls = <<>>
    /\ echoed = <<>>
    /\ firstMatchRound \in 0..MaxAttempts
    /\ pc = "fh_call"

NextAlias ==
    \/ find_host_from_alias
    \/ fh_discover
    \/ fh_scan

SpecAlias == InitAlias /\ [][NextAlias]_vars

TypeOK ==
    /\ pc \in {"cli", "fh_call", "fh_discover", "fh_scan", "fh_return",
               "factory", "single", "discover", "done", "raised"}
    /\ exc \in {"none", "InvalidArgument", "TransportError", "UnresolvedDevice"}
    /\ found_devs \in DiscoveryResults
    /\ fh_ret \in Optional(Hosts)
    /\ host \in Optional(Hosts)

\* ------------------------------------------------ claims on alias resolution
\* the call has ended, by a return or by an exception
Ended == pc \in {"fh_return", "raised"}

\* C1: for every attempt budget N >= 1 alias resolution issues at most N
\* discovery rounds, and when no round within the budget answers with the
\* alias it returns None after exactly N rounds.
C1_ExactlyNRounds ==
    (attempts >= 1 /\ timeout > 0) =>
        /\ Rounds <= attempts
        /\ (pc = "fh_return" /\ firstMatchRound \notin 1..attempts)
              => (fh_ret = None /\ Rounds = attempts)

\* C2: if round k, 1 <= k <= attempts, is the first round that answers with
\* the alias (ignoring case), the call returns the address of a matching
\* descriptor of that round after exactly k rounds; no descriptor whose
\* alias differs other than by case is returned.
C2_FirstMatchingRoundReturns ==
    /\ (pc = "fh_return" /\ timeout > 0 /\ firstMatchRound \in 1..attempts)
          => (fh_ret # None /\ Rounds = firstMatchRound)
    /\ (pc = "fh_return" /\ fh_ret # None)
          => \E i \in 1..Len(found_devs) :
                /\ found_devs[i].host = fh_ret[1]
                /\ Lower(found_devs[i].alias) = Lower(alias[1])

\* C4: a transport failure of one round ends only that attempt: the call
\* never ends with the transport error.
C4_TransportFailureNotPropagated == pc = "raised" => exc # "TransportError"

\* C5: with attempts <= 0 or timeout <= 0 the call ends with InvalidArgument
\* and has issued no discovery round.
C5_InvalidArgumentFailsFast ==
    (Ended /\ (attempts <= 0 \/ timeout <= 0))
        => (exc = "InvalidArgument" /\ Rounds = 0)

AnyKindFlag == bulb \/ plug \/ strip

\* the calls of Discover.discover_single issued so far
SingleProbes == SelectSeq(netlog, LAMBDA c : c.call = "discover_single")

\* the rounds the discover command has issued so far
Enumerations == SelectSeq(netlog, LAMBDA c : c.by = "discover")

\* the callback resolves a device: it is past its entry, not for `discover`
Resolving == pc # "cli" /\ invoked_subcommand # Some("discover")

ExplicitHost == params_host # None \/ ip # None

\* the callback is over, by its return or by an exception
Over == pc \in {"done", "raised"}

\* the factory step (cli.py:79-92) has been entered and left
FactoryOver == Over /\ host # None /\ invoked_subcommand # Some("discover")

\* C3: the factory step probes only to auto-detect: with a kind flag no
\* discover_single call is ever issued (and with an explicit host no network
\* call at all); with no kind flag the step issues exactly one call, a
\* discover_single of the host, not of the broadcast target, as the last
\* call of the run.
C3_ProbeOnlyOnAutoDetect ==
    /\ AnyKindFlag => SingleProbes = <<>>
    /\ (AnyKindFlag /\ ExplicitHost) => netlog = <<>>
    /\ (AnyKindFlag /\ FactoryOver)
          => (ctx_obj # None /\ Len(netlog) = Rounds)
    /\ (~AnyKindFlag /\ host # None /\ Resolving /\ pc \in {"single", "done", "raised"})
          => /\ SingleProbes = <<Call("cli", "discover_single", host[1])>>
             /\ netlog[Len(netlog)] = SingleProbes[1]
             /\ SingleProbes[1].target # target
             /\ Len(netlog) = Rounds + 1

\* C3: a host found by alias, no kind flag, the handle auto-detected
C3_AutoDetected ==
    /\ pc = "done" /\ ~AnyKindFlag /\ ctx_obj # None
    /\ Len(SingleProbes) = 1 /\ Rounds = 2

C8_OnePath ==
    Resolving =>
        CASE ExplicitHost ->
               /\ Rounds = 0 /\ Enumerations = <<>>
               /\ pc \in {"factory", "single", "done", "raised"}
               /\ host = HostOrIp(ip, params_host)
          [] alias # None ->
               /\ Enumerations = <<>> /\ pc # "discover"
               /\ Over => Rounds >= 1
               /\ echoed[1] = "AliasGiven"
          [] OTHER ->
               /\ Rounds = 0 /\ SingleProbes = <<>>
               /\ pc \in {"discover", "done", "raised"}
               /\ Over => netlog = <<Call("discover", "discover", target)>>
               /\ host = None
               /\ Len(stateCalls) = Len(found_devs)

\* C8: host and alias both given, the factory step has run with no round
C8_HostAndAlias ==
    /\ pc = "done" /\ Resolving /\ params_host # None /\ alias # None
    /\ ctx_obj # None /\ netlog = <<>>

\* alias resolution came back to the callback with None
AliasNotFound ==
    /\ Resolving /\ ~ExplicitHost /\ alias # None
    /\ fh_ret = None
    /\ pc \notin {"fh_call", "fh_discover", "fh_scan", "fh_return", "raised"}

\* C9: when alias resolution ends in None the callback stops: ctx.obj stays
\* unset, no discover_single and no discovery of the network is issued, and
\* state is not run.
C9_NotFoundStops ==
    AliasNotFound
        => /\ pc = "done"
           /\ ctx_obj = None
           /\ SingleProbes = <<>> /\ Enumerations = <<>>
           /\ Len(netlog) = Rounds
           /\ stateCalls = <<>>
           /\ echoed = <<"AliasGiven", "NoDevice">>

\* C9: the alias was not found after the rounds of the callback
C9_NotFound == AliasNotFound /\ Rounds = 2 /\ invoked_subcommand = None

\* the kind the flags ask for
FlagKind == IF bulb THEN "bulb" ELSE IF plug THEN "plug" ELSE "strip"

\* C10 as stated: with a known host exactly one handle is constructed, of
\* the kind bulb over plug over strip over auto-detected; the branch
\* "Unable to detect type" is never reached.
C10_OneHandleByPrecedence ==
    /\ \A i \in 1..Len(echoed) : echoed[i] # "Unable"
    /\ FactoryOver
          => /\ ctx_obj # None
             /\ ctx_obj[1].host = host[1]
             /\ AnyKindFlag => ctx_obj[1].kind = FlagKind

\* C10 as amended: as stated, except that with no kind flag a failing
\* auto-detect probe leaves the callback by its error with no handle.
C10_OneHandleUnlessProbeFails ==
    /\ \A i \in 1..Len(echoed) : echoed[i] # "Unable"
    /\ FactoryOver
          => IF exc = "UnresolvedDevice"
             THEN ~AnyKindFlag /\ ctx_obj = None /\ pc = "raised"
             ELSE /\ pc = "done"
                  /\ ctx_obj # None
                  /\ ctx_obj[1].host = host[1]
                  /\ ctx_obj[1].kind \in Kinds
                  /\ AnyKindFlag => ctx_obj[1].kind = FlagKind

\* C10: --plug and --strip together, the handle is a plug
C10_PlugOverStrip ==
    /\ pc = "done" /\ ~bulb /\ plug /\ strip /\ host # None
    /\ ctx_obj = Some(Handle("plug", host[1]))

====
